---- MODULE Spec2Model ----
(***************************************************************************)
(* A model of the LRU cache of AScotM/lru-cache-go.                        *)
(*                                                                         *)
(* The repository holds three versions of the cache: src/main.go and two   *)
(* earlier ones, src/unnamed/part_000 and src/unnamed/part_001, whose list *)
(* ends in nil pointers and which keep a size field.                       *)
(*                                                                         *)
(* src/main.go is the sentinel-based cache (head and tail sentinels, the   *)
(* size taken from the index map).  The cache object is a record; the      *)
(* nodes it owns live in a heap, a function from node addresses to node    *)
(* records, so that prev/next are pointers and aliasing is what it is in   *)
(* the Go code.  Every method is an operator from a cache (and arguments)  *)
(* to a result record holding the cache afterwards and the return values.  *)
(***************************************************************************)
EXTENDS Integers, Sequences, FiniteSets, TLC

VARIABLES
  c,      \* the cache object main()'s variable `cache` points to
  live,   \* whether that pointer is non-nil (construction succeeded)
  pre,    \* the cache object as it was before the last call
  op,     \* the last call: its name, arguments and return values
  impl,   \* the source file the program is built from
  panicked, \* whether the program has terminated in a panic
  ref,    \* the live keys by their last touch, the latest first: now, and
          \* before the last call (kept beside the cache, not read by it)
  twin,   \* a part_000 cache given the same calls, and what it returned
  mu,     \* the cache's sync.RWMutex: who holds it
  gor     \* the goroutines that share the cache: where each one is in its
          \* call, and its local variables

vars == <<c, live, pre, op, impl, panicked, ref, twin, mu, gor>>

\* what a call on the cache of main() leaves alone
others == <<twin, mu, gor>>

----------------------------------------------------------------------------
(* Bounds of the model *)

MaxCap == 3
MaxKey == 3
MaxVal == 1

KeySet == {-1} \cup (1..MaxKey)
ValSet == 0..MaxVal
CapArgs == (-1)..MaxCap

\* the goroutines that share a cache
NumGoroutines == 2
Goroutines == 1..NumGoroutines

\* the calls one goroutine makes on a part_001 cache before it ends
MaxCalls == 2

Nil == 0
NodeIds == 1..(MaxCap + MaxKey + 6)

----------------------------------------------------------------------------
(* Go built-ins used by the code *)

\* len(m) of a map
MapLen(m) == Cardinality(DOMAIN m)

\* delete(m, k)
MapDelete(m, k) == [x \in DOMAIN m \ {k} |-> m[x]]

\* m[k] = n
MapSet(m, k, n) == [x \in DOMAIN m \cup {k} |-> IF x = k THEN n ELSE m[x]]

\* &Node{key: k, value: v}: a fresh address; prev and next are nil
NewNode(k, v) == [key |-> k, value |-> v, prev |-> Nil, next |-> Nil]

Alloc(h) ==
  CHOOSE n \in NodeIds \ DOMAIN h : \A m \in NodeIds \ DOMAIN h : n <= m

HeapAdd(h, n, rec) == [x \in DOMAIN h \cup {n} |-> IF x = n THEN rec ELSE h[x]]

----------------------------------------------------------------------------
(* Garbage collection and address renaming.  Nodes no pointer reaches are  *)
(* dropped from the heap, and the remaining addresses are renamed in the   *)
(* order of the walk from head (addresses are opaque to the program).      *)

RECURSIVE Closure(_, _)
Closure(h, S) ==
  LET T == (S \cup {h[n].prev : n \in S} \cup {h[n].next : n \in S}) \ {Nil}
  IN IF T = S THEN S ELSE Closure(h, T)

Roots(k) == ({k.head, k.tail} \cup {k.cache[x] : x \in DOMAIN k.cache}) \ {Nil}

RECURSIVE Chain(_, _, _)
Chain(h, n, seen) ==
  IF n = Nil \/ n \in seen THEN <<>>
  ELSE <<n>> \o Chain(h, h[n].next, seen \cup {n})

RECURSIVE SetToSeq(_)
SetToSeq(S) ==
  IF S = {} THEN <<>>
  ELSE LET m == CHOOSE x \in S : \A y \in S : x <= y
       IN <<m>> \o SetToSeq(S \ {m})

SeqRange(s) == {s[i] : i \in 1..Len(s)}

\* the nodes kept, in the order of their new addresses; held are the
\* nodes that local variables of goroutines point to
Order(k, held) ==
  LET reach == Closure(k.heap, Roots(k) \cup (held \ {Nil}))
      walk  == Chain(k.heap, k.head, {})
  IN walk \o SetToSeq(reach \ SeqRange(walk))

\* the new address of node n
Rename(order, n) ==
  IF n = Nil THEN Nil ELSE CHOOSE i \in 1..Len(order) : order[i] = n

GCKeeping(k, held) ==
  LET order == Order(k, held)
      h2 == [i \in 1..Len(order) |->
               [key   |-> k.heap[order[i]].key,
                value |-> k.heap[order[i]].value,
                prev  |-> Rename(order, k.heap[order[i]].prev),
                next  |-> Rename(order, k.heap[order[i]].next)]]
  IN [k EXCEPT !.heap = h2,
               !.head = Rename(order, k.head),
               !.tail = Rename(order, k.tail),
               !.cache = [x \in DOMAIN k.cache |-> Rename(order, k.cache[x])]]

GC(k) == GCKeeping(k, {})

----------------------------------------------------------------------------
(* src/main.go *)

\* the object behind a nil *SecureLRUCache: no cache
NoCache ==
  [capacity |-> 0, cache |-> <<>>, head |-> Nil, tail |-> Nil, heap |-> <<>>,
   hits |-> 0, misses |-> 0, evictions |-> 0, enableMetrics |-> FALSE]

\* the constructor with capacity < 0 as its test: zero accepted
NewSecureLRUCacheAllowsZero(capacity) ==
  IF capacity < 0 THEN [c |-> NoCache, err |-> TRUE]
  ELSE [c |-> [capacity |-> capacity, cache |-> <<>>,
               head |-> 1, tail |-> 2,
               heap |-> <<[key |-> -1, value |-> -1, prev |-> Nil, next |-> 2],
                          [key |-> -1, value |-> -1, prev |-> 1, next |-> Nil]>>,
               hits |-> 0, misses |-> 0, evictions |-> 0,
               enableMetrics |-> FALSE],
        err |-> FALSE]

NewSecureLRUCache(capacity) ==
  IF capacity < 1 THEN [c |-> NoCache, err |-> TRUE]
  ELSE LET head == 1
           tail == 2
           h == [n \in {head, tail} |->
                   IF n = head
                   THEN [key |-> -1, value |-> -1, prev |-> Nil, next |-> tail]
                   ELSE [key |-> -1, value |-> -1, prev |-> head, next |-> Nil]]
       IN [c |-> [capacity |-> capacity, cache |-> <<>>,
                  head |-> head, tail |-> tail, heap |-> h,
                  hits |-> 0, misses |-> 0, evictions |-> 0,
                  enableMetrics |-> FALSE],
           err |-> FALSE]

\* removeNode that leaves the node linked
removeNodeStays(k, node) == k

removeNode(k, node) ==
  IF node = Nil THEN k
  ELSE IF k.heap[node].prev = Nil \/ k.heap[node].next = Nil THEN k
  ELSE IF node = k.head \/ node = k.tail THEN k
  ELSE LET h1 == [k.heap EXCEPT ![k.heap[node].prev].next = k.heap[node].next]
           h2 == [h1 EXCEPT ![h1[node].next].prev = h1[node].prev]
           h3 == [h2 EXCEPT ![node].prev = Nil]
           h4 == [h3 EXCEPT ![node].next = Nil]
       IN [k EXCEPT !.heap = h4]

\* addToHead without c.head.next.prev = node: the back link is not set
addToHeadNoBackLink(k, node) ==
  IF node = Nil THEN k
  ELSE IF node = k.head \/ node = k.tail THEN k
  ELSE LET h1 == [k.heap EXCEPT ![node].next = k.heap[k.head].next]
           h2 == [h1 EXCEPT ![node].prev = k.head]
           h4 == [h2 EXCEPT ![k.head].next = node]
       IN [k EXCEPT !.heap = h4]

addToHead(k, node) ==
  IF node = Nil THEN k
  ELSE IF node = k.head \/ node = k.tail THEN k
  ELSE LET h1 == [k.heap EXCEPT ![node].next = k.heap[k.head].next]
           h2 == [h1 EXCEPT ![node].prev = k.head]
           h3 == [h2 EXCEPT ![h2[k.head].next].prev = node]
           h4 == [h3 EXCEPT ![k.head].next = node]
       IN [k EXCEPT !.heap = h4]

\* moveToHead that leaves the node where it is
moveToHeadStays(k, node) == k

moveToHead(k, node) ==
  IF node = Nil THEN k
  ELSE IF k.heap[node].prev = Nil \/ k.heap[node].next = Nil THEN k
  ELSE IF node = k.head \/ node = k.tail THEN k
  ELSE IF node = k.heap[k.head].next THEN k
  ELSE addToHead(removeNode(k, node), node)

\* if c.enableMetrics { atomic.AddInt64(&counter, 1) }
CountMiss(k) == IF k.enableMetrics THEN [k EXCEPT !.misses = @ + 1] ELSE k
CountHit(k) == IF k.enableMetrics THEN [k EXCEPT !.hits = @ + 1] ELSE k
CountEviction(k) == IF k.enableMetrics THEN [k EXCEPT !.evictions = @ + 1] ELSE k

Get(k, key) ==
  IF key \notin DOMAIN k.cache
  THEN [c |-> CountMiss(k), value |-> 0, found |-> FALSE]
  ELSE LET node == k.cache[key]
           k1 == moveToHead(k, node)
       IN [c |-> CountHit(k1), value |-> k1.heap[node].value, found |-> TRUE]

\* GetOrDefault that returns the value and leaves the node where it is
GetOrDefaultNoPromote(k, key, defaultValue) ==
  IF key \notin DOMAIN k.cache
  THEN [c |-> CountMiss(k), value |-> defaultValue]
  ELSE [c |-> CountHit(k), value |-> k.heap[k.cache[key]].value]

GetOrDefault(k, key, defaultValue) ==
  IF key \notin DOMAIN k.cache
  THEN [c |-> CountMiss(k), value |-> defaultValue]
  ELSE LET node == k.cache[key]
           k1 == moveToHead(k, node)
       IN [c |-> CountHit(k1), value |-> k1.heap[node].value]

\* the assignment node.value = value left out
SetValueSkipped(k, node, value) == k

\* node.value = value
SetValue(k, node, value) == [k EXCEPT !.heap[node].value = value]

\* len(c.cache) > c.capacity: one entry too late
PutIsFullLate(k) == MapLen(k.cache) > k.capacity

\* len(c.cache) >= c.capacity
PutIsFull(k) == MapLen(k.cache) >= k.capacity

\* lru := c.head.next: the most recently used entry taken as the victim
LruNodeAtHead(k) == k.heap[k.head].next

\* lru := c.tail.prev
LruNode(k) == k.heap[k.tail].prev

\* the victim unlinked but left in the index
EvictKeepsIndex(k, lru) == CountEviction(removeNode(k, lru))

\* c.removeNode(lru); delete(c.cache, lru.key); count the eviction
Evict(k, lru) ==
  LET k1 == removeNode(k, lru)
      k2 == [k1 EXCEPT !.cache = MapDelete(k1.cache, k1.heap[lru].key)]
  IN CountEviction(k2)

\* node := &Node{key: key, value: value}; c.cache[key] = node; c.addToHead(node)
Insert(k, key, value) ==
  LET node == Alloc(k.heap)
      k1 == [k EXCEPT !.heap = HeapAdd(k.heap, node, NewNode(key, value))]
      k2 == [k1 EXCEPT !.cache = MapSet(k1.cache, key, node)]
  IN addToHead(k2, node)

\* `evicted` is not a return value of the code: it lists the keys the call
\* deleted from the index, in the order it deleted them.
Put(k, key, value) ==
  IF key \in DOMAIN k.cache
  THEN LET node == k.cache[key]
       IN [c |-> moveToHead(SetValue(k, node, value), node),
           err |-> FALSE, evicted |-> <<>>]
  ELSE IF PutIsFull(k)
  THEN LET lru == LruNode(k)
       IN IF lru # k.head
          THEN [c |-> Insert(Evict(k, lru), key, value),
                err |-> FALSE, evicted |-> <<k.heap[lru].key>>]
          ELSE [c |-> k, err |-> TRUE, evicted |-> <<>>]
  ELSE [c |-> Insert(k, key, value), err |-> FALSE, evicted |-> <<>>]

Contains(k, key) == key \in DOMAIN k.cache

Size(k) == MapLen(k.cache)

Capacity(k) == k.capacity

\* newCapacity < 0: zero accepted
ResizeInvalidBelowZero(newCapacity) == newCapacity < 0

\* newCapacity < 1
ResizeInvalid(newCapacity) == newCapacity < 1

\* toRemove one short
ToRemoveOneShort(k, newCapacity) == MapLen(k.cache) - newCapacity - 1

\* toRemove := len(c.cache) - newCapacity
ToRemove(k, newCapacity) == MapLen(k.cache) - newCapacity

\* for i := 0; i < toRemove; i++ { ... }
RECURSIVE ResizeLoop(_, _, _, _)
ResizeLoop(k, i, toRemove, evicted) ==
  IF ~(i < toRemove) THEN [c |-> k, evicted |-> evicted]
  ELSE LET lru == LruNode(k)
       IN IF lru = k.head THEN [c |-> k, evicted |-> evicted]
          ELSE ResizeLoop(Evict(k, lru), i + 1, toRemove,
                          Append(evicted, k.heap[lru].key))

\* Resize that sets the bound and evicts nothing
ResizeSetsBoundOnly(k, newCapacity) ==
  IF newCapacity < 1
  THEN [c |-> k, err |-> TRUE, evicted |-> <<>>]
  ELSE [c |-> [k EXCEPT !.capacity = newCapacity],
        err |-> FALSE, evicted |-> <<>>]

Resize(k, newCapacity) ==
  IF ResizeInvalid(newCapacity)
  THEN [c |-> k, err |-> TRUE, evicted |-> <<>>]
  ELSE LET r == IF newCapacity < k.capacity /\ MapLen(k.cache) > newCapacity
                THEN ResizeLoop(k, 0, ToRemove(k, newCapacity), <<>>)
                ELSE [c |-> k, evicted |-> <<>>]
       IN [c |-> [r.c EXCEPT !.capacity = newCapacity],
           err |-> FALSE, evicted |-> r.evicted]

\* Clear that empties the index and leaves the list as it is
ClearIndexOnly(k) == [k EXCEPT !.cache = <<>>]

Clear(k) ==
  LET k1 == [k EXCEPT !.cache = <<>>]
      k2 == [k1 EXCEPT !.heap[k1.head].next = k1.tail]
  IN [k2 EXCEPT !.heap[k2.tail].prev = k2.head]

Remove(k, key) ==
  IF key \notin DOMAIN k.cache THEN [c |-> k, ok |-> FALSE]
  ELSE LET k1 == removeNode(k, k.cache[key])
       IN [c |-> [k1 EXCEPT !.cache = MapDelete(k1.cache, key)], ok |-> TRUE]

\* for node := c.head.next; node != c.tail; node = node.next: the nodes met.
\* The walk is cut after as many steps as the heap has nodes (the code would
\* not return from a cyclic list, and would fault on a nil link).
RECURSIVE WalkFrom(_, _, _)
WalkFrom(k, node, fuel) ==
  IF node = k.tail \/ node = Nil \/ fuel = 0 THEN <<>>
  ELSE <<node>> \o WalkFrom(k, k.heap[node].next, fuel - 1)

Walk(k) == WalkFrom(k, k.heap[k.head].next, Cardinality(DOMAIN k.heap))

Keys(k) == [i \in 1..Len(Walk(k)) |-> k.heap[Walk(k)[i]].key]

Values(k) == [i \in 1..Len(Walk(k)) |-> k.heap[Walk(k)[i]].value]

\* items[node.key] = node.value along the walk: a later node overwrites
RECURSIVE ItemsOf(_, _)
ItemsOf(k, w) ==
  IF w = <<>> THEN <<>>
  ELSE LET n == w[Len(w)]
           m == ItemsOf(k, SubSeq(w, 1, Len(w) - 1))
       IN MapSet(m, k.heap[n].key, k.heap[n].value)

Dump(k) ==
  [Capacity |-> k.capacity, Size |-> MapLen(k.cache),
   Items |-> ItemsOf(k, Walk(k)), Order |-> Keys(k)]

\* Peek that promotes like Get
PeekPromotes(k, key) ==
  IF key \notin DOMAIN k.cache
  THEN [c |-> k, value |-> 0, found |-> FALSE]
  ELSE [c |-> moveToHead(k, k.cache[key]),
        value |-> k.heap[k.cache[key]].value, found |-> TRUE]

Peek(k, key) ==
  IF key \notin DOMAIN k.cache
  THEN [c |-> k, value |-> 0, found |-> FALSE]
  ELSE [c |-> k, value |-> k.heap[k.cache[key]].value, found |-> TRUE]

Stats(k) ==
  [Hits |-> k.hits, Misses |-> k.misses, Evictions |-> k.evictions,
   Size |-> MapLen(k.cache), Capacity |-> k.capacity]

----------------------------------------------------------------------------
(* The calls a single caller makes, one after the other.  Every method of  *)
(* main.go holds the lock from its first to its last statement, so a call  *)
(* is one step.  pre and op record the call for the properties below.      *)

Call(name, key, value, rv, ok, evicted) ==
  [name |-> name, key |-> key, value |-> value, rv |-> rv, ok |-> ok,
   evicted |-> evicted]

NoCall == Call("none", 0, 0, 0, TRUE, <<>>)

\* no key touched yet
NoRef == [before |-> <<>>, now |-> <<>>]

\* no second cache
NoTwin == [c |-> NoCache, ret |-> NoCall]

\* the mutex when nobody holds it: no writer (0) and no readers
NoLock == [writer |-> 0, readers |-> {}]

\* a goroutine that is in no call
NoGoroutine ==
  [pc |-> "idle", call |-> "none", arg |-> 0, node |-> Nil, calls |-> 0,
   items |-> <<>>, i |-> 0, seen |-> <<>>]

\* before main() has called the constructor
Start ==
  /\ mu = NoLock
  /\ gor = [g \in Goroutines |-> NoGoroutine]
  /\ c = NoCache
  /\ live = FALSE
  /\ pre = NoCache
  /\ op = NoCall
  /\ panicked = FALSE
  /\ ref = NoRef
  /\ twin = NoTwin

\* s with key moved, or put, to its front
Touch(s, key) == <<key>> \o SelectSeq(s, LAMBDA x : x # key)

\* The order of last touch after a call that touched key (if didTouch) and
\* left the keys of index alive.  What counts as a touch is the rule of
\* the specification: a Put of the key, a Get or GetOrDefault that found it.
Touched(r, didTouch, key, index) ==
  [before |-> r.now,
   now |-> SelectSeq(IF didTouch THEN Touch(r.now, key) ELSE r.now,
                     LAMBDA x : x \in DOMAIN index)]

\* the caller is between two calls, and the program has not panicked
Idle == op = NoCall /\ ~panicked

\* the caller has used what the last call returned and goes on to its next
\* statement; pre and op describe a call only until then
Continue ==
  /\ op # NoCall /\ op.name # "Range" /\ ~panicked
  /\ op' = NoCall
  /\ pre' = NoCache
  /\ ref' = [ref EXCEPT !.before = <<>>]
  /\ UNCHANGED <<c, live, impl, panicked, others>>

Init == Start /\ impl = "main.go"

\* cache, err := NewSecureLRUCache(capacity); key holds the argument
DoNew(capacity) ==
  /\ Idle /\ impl = "main.go" /\ ~live
  /\ LET r == NewSecureLRUCache(capacity)
     IN /\ c' = r.c
        /\ live' = ~r.err
        /\ op' = Call("New", capacity, 0, 0, ~r.err, <<>>)
  /\ pre' = c
  /\ ref' = NoRef
  /\ UNCHANGED <<impl, panicked, others>>

DoGet(key) ==
  /\ Idle /\ impl = "main.go" /\ live
  /\ LET r == Get(c, key)
     IN /\ c' = GC(r.c)
        /\ op' = Call("Get", key, 0, r.value, r.found, <<>>)
  /\ pre' = c
  /\ ref' = Touched(ref, Get(c, key).found, key, c'.cache)
  /\ UNCHANGED <<live, impl, panicked, others>>

DoGetOrDefault(key, defaultValue) ==
  /\ Idle /\ impl = "main.go" /\ live
  /\ LET r == GetOrDefault(c, key, defaultValue)
     IN /\ c' = GC(r.c)
        /\ op' = Call("GetOrDefault", key, defaultValue, r.value, TRUE, <<>>)
  /\ pre' = c
  /\ ref' = Touched(ref, Contains(c, key), key, c'.cache)
  /\ UNCHANGED <<live, impl, panicked, others>>

DoPut(key, value) ==
  /\ Idle /\ impl = "main.go" /\ live
  /\ LET r == Put(c, key, value)
     IN /\ c' = GC(r.c)
        /\ op' = Call("Put", key, value, 0, ~r.err, r.evicted)
  /\ pre' = c
  /\ ref' = Touched(ref, ~Put(c, key, value).err, key, c'.cache)
  /\ UNCHANGED <<live, impl, panicked, others>>

DoPeek(key) ==
  /\ Idle /\ impl = "main.go" /\ live
  /\ LET r == Peek(c, key)
     IN /\ c' = GC(r.c)
        /\ op' = Call("Peek", key, 0, r.value, r.found, <<>>)
  /\ pre' = c
  /\ ref' = Touched(ref, FALSE, key, c'.cache)
  /\ UNCHANGED <<live, impl, panicked, others>>

DoContains(key) ==
  /\ Idle /\ impl = "main.go" /\ live
  /\ c' = c
  /\ op' = Call("Contains", key, 0, 0, Contains(c, key), <<>>)
  /\ pre' = c
  /\ ref' = Touched(ref, FALSE, key, c'.cache)
  /\ UNCHANGED <<live, impl, panicked, others>>

\* key holds the argument newCapacity
DoResize(newCapacity) ==
  /\ Idle /\ impl = "main.go" /\ live
  /\ LET r == Resize(c, newCapacity)
     IN /\ c' = GC(r.c)
        /\ op' = Call("Resize", newCapacity, 0, 0, ~r.err, r.evicted)
  /\ pre' = c
  /\ ref' = Touched(ref, FALSE, 0, c'.cache)
  /\ UNCHANGED <<live, impl, panicked, others>>

DoClear ==
  /\ Idle /\ impl = "main.go" /\ live
  /\ c' = GC(Clear(c))
  /\ op' = Call("Clear", 0, 0, 0, TRUE, <<>>)
  /\ pre' = c
  /\ ref' = Touched(ref, FALSE, 0, c'.cache)
  /\ UNCHANGED <<live, impl, panicked, others>>

DoRemove(key) ==
  /\ Idle /\ impl = "main.go" /\ live
  /\ LET r == Remove(c, key)
     IN /\ c' = GC(r.c)
        /\ op' = Call("Remove", key, 0, 0, r.ok, <<>>)
  /\ pre' = c
  /\ ref' = Touched(ref, FALSE, key, c'.cache)
  /\ UNCHANGED <<live, impl, panicked, others>>

Next ==
  \/ \E capacity \in CapArgs : DoNew(capacity)
  \/ \E key \in KeySet : DoGet(key)
  \/ \E key \in KeySet, d \in ValSet : DoGetOrDefault(key, d)
  \/ \E key \in KeySet, value \in ValSet : DoPut(key, value)
  \/ \E key \in KeySet : DoPeek(key)
  \/ \E key \in KeySet : DoContains(key)
  \/ \E newCapacity \in CapArgs : DoResize(newCapacity)
  \/ DoClear
  \/ \E key \in KeySet : DoRemove(key)
  \/ Continue

Spec == Init /\ [][Next]_vars

----------------------------------------------------------------------------
(* src/unnamed/part_000: the list ends in nil at both ends, head and tail  *)
(* point to data nodes (nil when the cache is empty), and the cache keeps  *)
(* a size field.                                                           *)

NewSecureLRUCache000(capacity) ==
  IF capacity < 1 THEN [c |-> NoCache, err |-> TRUE]
  ELSE [c |-> [capacity |-> capacity, cache |-> <<>>, head |-> Nil,
               tail |-> Nil, size |-> 0, heap |-> <<>>],
        err |-> FALSE]

removeNode000(k, node) ==
  IF node = Nil THEN k
  ELSE LET k1 == IF k.heap[node].prev # Nil
                 THEN [k EXCEPT !.heap[k.heap[node].prev].next = k.heap[node].next]
                 ELSE [k EXCEPT !.head = k.heap[node].next]
           k2 == IF k1.heap[node].next # Nil
                 THEN [k1 EXCEPT !.heap[k1.heap[node].next].prev = k1.heap[node].prev]
                 ELSE [k1 EXCEPT !.tail = k1.heap[node].prev]
           k3 == [k2 EXCEPT !.heap[node].prev = Nil]
           k4 == [k3 EXCEPT !.heap[node].next = Nil]
       IN [k4 EXCEPT !.size = @ - 1]

\* addToHead without `if c.tail == nil { c.tail = node }`
addToHead000NoTail(k, node) ==
  IF node = Nil THEN k
  ELSE LET k1 == [k EXCEPT !.heap[node].next = k.head]
           k2 == [k1 EXCEPT !.heap[node].prev = Nil]
           k3 == IF k2.head # Nil
                 THEN [k2 EXCEPT !.heap[k2.head].prev = node]
                 ELSE k2
           k4 == [k3 EXCEPT !.head = node]
       IN [k4 EXCEPT !.size = @ + 1]

addToHead000(k, node) ==
  IF node = Nil THEN k
  ELSE LET k1 == [k EXCEPT !.heap[node].next = k.head]
           k2 == [k1 EXCEPT !.heap[node].prev = Nil]
           k3 == IF k2.head # Nil
                 THEN [k2 EXCEPT !.heap[k2.head].prev = node]
                 ELSE k2
           k4 == [k3 EXCEPT !.head = node]
           k5 == IF k4.tail = Nil THEN [k4 EXCEPT !.tail = node] ELSE k4
       IN [k5 EXCEPT !.size = @ + 1]

Get000(k, key) ==
  IF key \notin DOMAIN k.cache
  THEN [c |-> k, value |-> 0, found |-> FALSE]
  ELSE LET node == k.cache[key]
           k1 == addToHead000(removeNode000(k, node), node)
       IN [c |-> k1, value |-> k1.heap[node].value, found |-> TRUE]

Put000(k, key, value) ==
  IF key \in DOMAIN k.cache
  THEN LET node == k.cache[key]
           k1 == [k EXCEPT !.heap[node].value = value]
       IN addToHead000(removeNode000(k1, node), node)
  ELSE LET k1 == IF k.size >= k.capacity /\ k.tail # Nil
                 THEN LET lru == k.tail
                          e == removeNode000(k, lru)
                      IN [e EXCEPT !.cache = MapDelete(e.cache, e.heap[lru].key)]
                 ELSE k
           node == Alloc(k1.heap)
           k2 == [k1 EXCEPT !.heap = HeapAdd(k1.heap, node, NewNode(key, value))]
           k3 == [k2 EXCEPT !.cache = MapSet(k2.cache, key, node)]
       IN addToHead000(k3, node)

GetOrDefault000(k, key, defaultValue) ==
  LET r == Get000(k, key)
  IN IF r.found THEN [c |-> r.c, value |-> r.value]
     ELSE [c |-> r.c, value |-> defaultValue]

Contains000(k, key) == key \in DOMAIN k.cache

Size000(k) == k.size

Capacity000(k) == k.capacity

\* for c.size > newCapacity && c.tail != nil { ... }
RECURSIVE ResizeLoop000(_, _)
ResizeLoop000(k, newCapacity) ==
  IF ~(k.size > newCapacity /\ k.tail # Nil) THEN k
  ELSE LET lru == k.tail
           e == removeNode000(k, lru)
       IN ResizeLoop000([e EXCEPT !.cache = MapDelete(e.cache, e.heap[lru].key)],
                        newCapacity)

Resize000(k, newCapacity) ==
  IF newCapacity < 1 THEN [c |-> k, err |-> TRUE]
  ELSE LET k1 == IF newCapacity < k.capacity /\ k.size > newCapacity
                 THEN ResizeLoop000(k, newCapacity)
                 ELSE k
       IN [c |-> [k1 EXCEPT !.capacity = newCapacity], err |-> FALSE]

Clear000(k) ==
  [k EXCEPT !.cache = <<>>, !.head = Nil, !.tail = Nil, !.size = 0]

\* for node := c.head; node != nil; node = node.next: the nodes met (the
\* walk is cut after as many steps as the heap has nodes)
RECURSIVE WalkFrom000(_, _, _)
WalkFrom000(k, node, fuel) ==
  IF node = Nil \/ fuel = 0 THEN <<>>
  ELSE <<node>> \o WalkFrom000(k, k.heap[node].next, fuel - 1)

Walk000(k) == WalkFrom000(k, k.head, Cardinality(DOMAIN k.heap))

RECURSIVE ItemsOf000(_, _)
ItemsOf000(k, w) ==
  IF w = <<>> THEN <<>>
  ELSE LET n == w[Len(w)]
           m == ItemsOf000(k, SubSeq(w, 1, Len(w) - 1))
       IN MapSet(m, k.heap[n].key, k.heap[n].value)

Dump000(k) ==
  [Capacity |-> k.capacity, Size |-> k.size,
   Items |-> ItemsOf000(k, Walk000(k)),
   Order |-> [i \in 1..Len(Walk000(k)) |-> k.heap[Walk000(k)[i]].key]]

----------------------------------------------------------------------------
(* src/unnamed/part_001: as part_000, but the constructor panics, Get      *)
(* returns -1 for an absent key, and Put inserts before it evicts.         *)

\* panic("Capacity must be at least 1") ends the program: nothing is returned
NewSecureLRUCache001(capacity) ==
  IF capacity < 1 THEN [c |-> NoCache, panic |-> TRUE]
  ELSE [c |-> [capacity |-> capacity, cache |-> <<>>, head |-> Nil,
               tail |-> Nil, size |-> 0, heap |-> <<>>],
        panic |-> FALSE]

removeNode001(k, node) ==
  IF node = Nil THEN k
  ELSE LET k1 == IF k.heap[node].prev # Nil
                 THEN [k EXCEPT !.heap[k.heap[node].prev].next = k.heap[node].next]
                 ELSE [k EXCEPT !.head = k.heap[node].next]
           k2 == IF k1.heap[node].next # Nil
                 THEN [k1 EXCEPT !.heap[k1.heap[node].next].prev = k1.heap[node].prev]
                 ELSE [k1 EXCEPT !.tail = k1.heap[node].prev]
           k3 == [k2 EXCEPT !.heap[node].prev = Nil]
           k4 == [k3 EXCEPT !.heap[node].next = Nil]
       IN [k4 EXCEPT !.size = @ - 1]

addToHead001(k, node) ==
  LET k1 == [k EXCEPT !.heap[node].next = k.head]
      k2 == [k1 EXCEPT !.heap[node].prev = Nil]
      k3 == IF k2.head # Nil
            THEN [k2 EXCEPT !.heap[k2.head].prev = node]
            ELSE k2
      k4 == [k3 EXCEPT !.head = node]
      k5 == IF k4.tail = Nil THEN [k4 EXCEPT !.tail = node] ELSE k4
  IN [k5 EXCEPT !.size = @ + 1]

\* with one caller: the lookup under RLock and the promotion under Lock
\* follow each other with no other call in between
Get001(k, key) ==
  IF key \notin DOMAIN k.cache
  THEN [c |-> k, value |-> -1]
  ELSE LET node == k.cache[key]
           k1 == addToHead001(removeNode001(k, node), node)
       IN [c |-> k1, value |-> k1.heap[node].value]

Put001(k, key, value) ==
  IF key \in DOMAIN k.cache
  THEN LET node == k.cache[key]
           k1 == [k EXCEPT !.heap[node].value = value]
       IN addToHead001(removeNode001(k1, node), node)
  ELSE LET node == Alloc(k.heap)
           k1 == [k EXCEPT !.heap = HeapAdd(k.heap, node, NewNode(key, value))]
           k2 == [k1 EXCEPT !.cache = MapSet(k1.cache, key, node)]
           k3 == addToHead001(k2, node)
       IN IF k3.size > k3.capacity
          THEN LET lru == k3.tail
               IN IF lru # Nil
                  THEN LET e == removeNode001(k3, lru)
                       IN [e EXCEPT !.cache = MapDelete(e.cache, e.heap[lru].key)]
                  ELSE k3
          ELSE k3

----------------------------------------------------------------------------
(* The same single caller, with the program built from any one of the      *)
(* three source files.                                                     *)

Impls == {"main.go", "part_000", "part_001"}

InitVariants == Start /\ impl \in Impls

DoNew000(capacity) ==
  /\ Idle /\ impl = "part_000" /\ ~live
  /\ LET r == NewSecureLRUCache000(capacity)
     IN /\ c' = r.c
        /\ live' = ~r.err
        /\ op' = Call("New", capacity, 0, 0, ~r.err, <<>>)
  /\ pre' = c
  /\ UNCHANGED <<impl, panicked, ref, others>>

DoGet000(key) ==
  /\ Idle /\ impl = "part_000" /\ live
  /\ LET r == Get000(c, key)
     IN /\ c' = GC(r.c)
        /\ op' = Call("Get", key, 0, r.value, r.found, <<>>)
  /\ pre' = c
  /\ UNCHANGED <<live, impl, panicked, ref, others>>

DoPut000(key, value) ==
  /\ Idle /\ impl = "part_000" /\ live
  /\ c' = GC(Put000(c, key, value))
  /\ op' = Call("Put", key, value, 0, TRUE, <<>>)
  /\ pre' = c
  /\ UNCHANGED <<live, impl, panicked, ref, others>>

\* a panic ends the program: nothing follows it
DoNew001(capacity) ==
  /\ Idle /\ impl = "part_001" /\ ~live
  /\ LET r == NewSecureLRUCache001(capacity)
     IN /\ c' = r.c
        /\ live' = ~r.panic
        /\ panicked' = r.panic
        /\ op' = Call("New", capacity, 0, 0, ~r.panic, <<>>)
  /\ pre' = c
  /\ UNCHANGED <<impl, ref, others>>

DoGet001(key) ==
  /\ Idle /\ impl = "part_001" /\ live
  /\ LET r == Get001(c, key)
     IN /\ c' = GC(r.c)
        /\ op' = Call("Get", key, 0, r.value, TRUE, <<>>)
  /\ pre' = c
  /\ UNCHANGED <<live, impl, panicked, ref, others>>

DoPut001(key, value) ==
  /\ Idle /\ impl = "part_001" /\ live
  /\ c' = GC(Put001(c, key, value))
  /\ op' = Call("Put", key, value, 0, TRUE, <<>>)
  /\ pre' = c
  /\ UNCHANGED <<live, impl, panicked, ref, others>>

NextVariants ==
  \/ Next
  \/ \E capacity \in CapArgs : DoNew000(capacity)
  \/ \E key \in KeySet : DoGet000(key)
  \/ \E key \in KeySet, value \in ValSet : DoPut000(key, value)
  \/ \E capacity \in CapArgs : DoNew001(capacity)
  \/ \E key \in KeySet : DoGet001(key)
  \/ \E key \in KeySet, value \in ValSet : DoPut001(key, value)

SpecVariants == InitVariants /\ [][NextVariants]_vars

----------------------------------------------------------------------------
(* src/unnamed/part_001 shared by goroutines.  A critical section, from    *)
(* taking the mutex to releasing it, is one step, taken when the mutex can *)
(* be had.  Get has two critical sections: a goroutine that left the first *)
(* holds the node it found in its local variable `node` until it enters    *)
(* the second.                                                             *)

\* c.mu.RLock() returns: no writer holds the mutex
CanRLock == mu.writer = 0

\* c.mu.Lock() returns: nobody holds the mutex
CanLock == mu.writer = 0 /\ mu.readers = {}

\* the nodes that local variables of goroutines other than g point to
HeldBy(gs, g) == {gs[h].node : h \in Goroutines \ {g}}

\* the cache becomes k and the call of g, one of the goroutines gs, ends;
\* what the other goroutines hold stays what it is (addresses are renamed
\* together)
Leave(gs, g, k) ==
  LET held == HeldBy(gs, g)
  IN /\ c' = GCKeeping(k, held)
     /\ gor' = [h \in Goroutines |->
                  IF h = g
                  THEN [NoGoroutine EXCEPT !.calls = gs[g].calls]
                  ELSE [gs[h] EXCEPT !.node = Rename(Order(k, held), @)]]

Dump001(k) ==
  [capacity |-> k.capacity, size |-> k.size,
   items |-> ItemsOf000(k, Walk000(k)),
   order |-> [i \in 1..Len(Walk000(k)) |-> k.heap[Walk000(k)[i]].key]]

InitShared001 == Start /\ impl = "part_001"

\* c.mu.RLock(); node, exists := c.cache[key]; c.mu.RUnlock();
\* if !exists { return -1 }
GetLookup001(g, key) ==
  /\ Idle /\ impl = "part_001" /\ live
  /\ gor[g].pc = "idle" /\ gor[g].calls < MaxCalls
  /\ CanRLock
  /\ gor' = IF key \in DOMAIN c.cache
            THEN [gor EXCEPT ![g] = [pc |-> "found", call |-> "Get",
                                     arg |-> key, node |-> c.cache[key],
                                     calls |-> @.calls + 1,
                                     items |-> <<>>, i |-> 0, seen |-> <<>>]]
            ELSE [gor EXCEPT ![g].calls = @ + 1]
  /\ UNCHANGED <<c, live, pre, op, impl, panicked, ref, twin, mu>>

\* c.mu.Lock(); c.removeNode(node); c.addToHead(node); c.mu.Unlock()
GetPromote001(g) ==
  /\ Idle /\ impl = "part_001" /\ live
  /\ gor[g].pc = "found"
  /\ CanLock
  /\ Leave(gor, g, addToHead001(removeNode001(c, gor[g].node), gor[g].node))
  /\ UNCHANGED <<live, pre, op, impl, panicked, ref, twin, mu>>

PutShared001(g, key, value) ==
  /\ Idle /\ impl = "part_001" /\ live
  /\ gor[g].pc = "idle" /\ gor[g].calls < MaxCalls
  /\ CanLock
  /\ Leave([gor EXCEPT ![g].calls = @ + 1], g, Put001(c, key, value))
  /\ UNCHANGED <<live, pre, op, impl, panicked, ref, twin, mu>>

NextShared001 ==
  \/ \E capacity \in CapArgs : DoNew001(capacity)
  \/ Continue
  \/ \E g \in Goroutines, key \in KeySet : GetLookup001(g, key)
  \/ \E g \in Goroutines : GetPromote001(g)
  \/ \E g \in Goroutines, key \in KeySet, value \in ValSet :
       PutShared001(g, key, value)

SpecShared001 == InitShared001 /\ [][NextShared001]_vars

----------------------------------------------------------------------------
(* The mutex of src/main.go and of src/unnamed/part_000, taken and         *)
(* released by goroutines that share one cache.  A goroutine in a call is  *)
(* first at "lock", about to take the mutex the way its method does, and   *)
(* then at "in": it reads and writes the fields of the cache; the step     *)
(* that leaves "in" does the method's work, releases what the method holds *)
(* and returns.  A method that takes no mutex goes to "in" at once.        *)

\* how each method takes c.mu, as the source has it
LockMode(file, name) ==
  IF file = "main.go"
  THEN CASE name \in {"Contains", "Size", "Capacity", "Peek"} -> "RLock"
         [] name \in {"Get", "GetOrDefault", "Put", "Remove", "Resize", "Clear"}
              -> "Lock"
  ELSE CASE name \in {"Contains", "Size"} -> "RLock"
         [] name \in {"Get", "GetOrDefault", "Put", "Resize", "Clear"} -> "Lock"
         [] name = "Capacity" -> "none"

\* the public methods of the claim that each file has
Methods(file) ==
  IF file = "main.go"
  THEN {"Contains", "Size", "Capacity", "Peek",
        "Get", "GetOrDefault", "Put", "Remove", "Resize", "Clear"}
  ELSE {"Contains", "Size", "Capacity",
        "Get", "GetOrDefault", "Put", "Resize", "Clear"}

\* the cache after the body of a method has run on cache k
After(file, name, k, key, value, newCapacity) ==
  IF file = "main.go"
  THEN CASE name = "Get" -> Get(k, key).c
         [] name = "GetOrDefault" -> GetOrDefault(k, key, value).c
         [] name = "Put" -> Put(k, key, value).c
         [] name = "Remove" -> Remove(k, key).c
         [] name = "Resize" -> Resize(k, newCapacity).c
         [] name = "Clear" -> Clear(k)
         [] OTHER -> k
  ELSE CASE name = "Get" -> Get000(k, key).c
         [] name = "GetOrDefault" -> GetOrDefault000(k, key, value).c
         [] name = "Put" -> Put000(k, key, value)
         [] name = "Resize" -> Resize000(k, newCapacity).c
         [] name = "Clear" -> Clear000(k)
         [] OTHER -> k

InitLocks == Start /\ impl \in {"main.go", "part_000"}

\* goroutine g calls a method; Resize checks its argument before it
\* takes the mutex and returns at once when it is below 1
Enter(g, name, newCapacity) ==
  /\ Idle /\ live
  /\ gor[g].pc = "idle"
  /\ name \in Methods(impl)
  /\ IF name = "Resize" /\ newCapacity < 1
     THEN UNCHANGED gor
     ELSE gor' = [gor EXCEPT ![g] =
                    [@ EXCEPT !.pc = IF LockMode(impl, name) = "none"
                                     THEN "in" ELSE "lock",
                              !.call = name,
                              !.arg = IF name = "Resize" THEN newCapacity
                                      ELSE 0]]
  /\ UNCHANGED <<c, live, pre, op, impl, panicked, ref, twin, mu>>

\* c.mu.RLock() or c.mu.Lock() returns
Acquire(g) ==
  /\ Idle /\ live
  /\ gor[g].pc = "lock"
  /\ IF LockMode(impl, gor[g].call) = "RLock"
     THEN CanRLock /\ mu' = [mu EXCEPT !.readers = @ \cup {g}]
     ELSE CanLock /\ mu' = [mu EXCEPT !.writer = g]
  /\ gor' = [gor EXCEPT ![g].pc = "in"]
  /\ UNCHANGED <<c, live, pre, op, impl, panicked, ref, twin>>

\* the body of the method, and the deferred RUnlock or Unlock if the
\* method took the mutex
Return(g, key, value) ==
  /\ Idle /\ live
  /\ gor[g].pc = "in"
  /\ c' = GC(After(impl, gor[g].call, c, key, value, gor[g].arg))
  /\ mu' = [writer |-> IF mu.writer = g THEN 0 ELSE mu.writer,
            readers |-> mu.readers \ {g}]
  /\ gor' = [gor EXCEPT ![g] = NoGoroutine]
  /\ UNCHANGED <<live, pre, op, impl, panicked, ref, twin>>

NextLocks ==
  \/ \E capacity \in CapArgs : DoNew(capacity)
  \/ \E capacity \in CapArgs : DoNew000(capacity)
  \/ Continue
  \/ \E g \in Goroutines, name \in Methods("main.go"), n \in CapArgs :
       Enter(g, name, n)
  \/ \E g \in Goroutines : Acquire(g)
  \/ \E g \in Goroutines, key \in KeySet, value \in ValSet :
       Return(g, key, value)

SpecLocks == InitLocks /\ [][NextLocks]_vars

----------------------------------------------------------------------------
(* Range of src/main.go, called by one goroutine with a visitor f that may *)
(* call Put, Remove, Clear or Resize on the same cache (at most one call   *)
(* per visit) before it returns true or false.  items and i are the slice  *)
(* of Range and the number of items the loop has taken from it;            *)
(* seen records the pairs f was called with,                               *)
(* op.ok whether f has always returned true and op.rv the number of visits *)
(* made when f returned false.  pre is the cache when Range was called.    *)

\* the goroutine that calls Range
Caller == CHOOSE g \in Goroutines : TRUE

\* for node := c.head.next; node != c.tail; node = node.next
\*   { items = append(items, {node.key, node.value}) }
RangeItems(k) ==
  [n \in 1..Len(Walk(k)) |->
     [key |-> k.heap[Walk(k)[n]].key, value |-> k.heap[Walk(k)[n]].value]]

\* Range that leaves the mutex read-locked while it calls the visitor
RangeKeepsRLock(m, g) == m

\* c.mu.RUnlock() after the copy
RangeRUnlock(m, g) == [m EXCEPT !.readers = @ \ {g}]

\* the calls a visitor makes
VisitorCalls == {"Put", "Remove", "Clear", "Resize"}

\* the keys put into a cache that is ranged over
RangeKeys == 1..(MaxKey - 1)

\* the loop takes the next item and calls f(item.key, item.value), or is
\* done and Range returns
RangeLoop(r) ==
  IF r.i < Len(r.items)
  THEN [r EXCEPT !.pc = "f", !.i = @ + 1, !.seen = Append(@, r.items[r.i + 1])]
  ELSE [r EXCEPT !.pc = "returned"]

InitRange == Init

\* Range is called: c.mu.RLock()
RangeRLock ==
  /\ Idle /\ impl = "main.go" /\ live
  /\ gor[Caller].pc = "idle"
  /\ CanRLock
  /\ mu' = [mu EXCEPT !.readers = @ \cup {Caller}]
  /\ gor' = [gor EXCEPT ![Caller] = [@ EXCEPT !.pc = "copy", !.call = "Range"]]
  /\ op' = Call("Range", 0, 0, 0, TRUE, <<>>)
  /\ pre' = c
  /\ UNCHANGED <<c, live, impl, panicked, ref, twin>>

\* the copy of the pairs, c.mu.RUnlock(), and the loop begins
RangeCopy ==
  /\ gor[Caller].pc = "copy"
  /\ gor' = [gor EXCEPT ![Caller] =
               RangeLoop([@ EXCEPT !.items = RangeItems(c), !.i = 0])]
  /\ mu' = RangeRUnlock(mu, Caller)
  /\ UNCHANGED <<c, live, pre, op, impl, panicked, ref, twin>>

\* the visitor calls a method of the cache, which takes the mutex, does
\* its work and releases it; Resize returns before that if newCapacity < 1
VisitorCall(name, key, value, newCapacity) ==
  /\ gor[Caller].pc = "f"
  /\ name \in VisitorCalls
  /\ (name = "Resize" /\ ResizeInvalid(newCapacity)) \/ CanLock
  /\ c' = GC(After("main.go", name, c, key, value, newCapacity))
  /\ ref' = [Touched(ref, name = "Put", key, c'.cache) EXCEPT !.before = <<>>]
  /\ gor' = [gor EXCEPT ![Caller].pc = "g"]
  /\ UNCHANGED <<live, pre, op, impl, panicked, twin, mu>>

\* the visitor returns: if !f(item.key, item.value) { break }, and the
\* loop goes on
VisitorReturn(more) ==
  /\ gor[Caller].pc \in {"f", "g"}
  /\ gor' = [gor EXCEPT ![Caller] =
               IF more THEN RangeLoop(@) ELSE [@ EXCEPT !.pc = "returned"]]
  /\ op' = IF more THEN op
           ELSE [op EXCEPT !.ok = FALSE, !.rv = Len(gor[Caller].seen)]
  /\ UNCHANGED <<c, live, pre, impl, panicked, ref, twin, mu>>

\* the caller goes on to its next statement
RangeContinue ==
  /\ gor[Caller].pc = "returned"
  /\ gor' = [gor EXCEPT ![Caller] = NoGoroutine]
  /\ op' = NoCall
  /\ pre' = NoCache
  /\ UNCHANGED <<c, live, impl, panicked, ref, twin, mu>>

\* one call the visitor makes, with its arguments
VisitorPut(key, value) == VisitorCall("Put", key, value, 0)
VisitorRemove(key) == VisitorCall("Remove", key, 0, 0)
VisitorClear == VisitorCall("Clear", 0, 0, 0)
VisitorResize(newCapacity) == VisitorCall("Resize", 0, 0, newCapacity)

NextRange ==
  \/ \E capacity \in CapArgs : DoNew(capacity)
  \/ \E key \in RangeKeys, value \in ValSet : DoPut(key, value)
  \/ Continue
  \/ RangeRLock
  \/ RangeCopy
  \/ \E key \in RangeKeys, value \in ValSet : VisitorPut(key, value)
  \/ \E key \in RangeKeys : VisitorRemove(key)
  \/ VisitorClear
  \/ \E newCapacity \in CapArgs : VisitorResize(newCapacity)
  \/ \E more \in BOOLEAN : VisitorReturn(more)
  \/ RangeContinue

SpecRange == InitRange /\ [][NextRange]_vars

----------------------------------------------------------------------------
(* One caller who makes every call twice: on a cache of main.go, c, and    *)
(* on a cache of part_000, twin.c, built with the same capacity.  op holds *)
(* what main.go returned and twin.ret what part_000 returned.  A Put of    *)
(* part_000 returns nothing, which is recorded as no error.                *)

InitEquiv == Start /\ impl = "main.go and part_000"

EqNew(capacity) ==
  /\ Idle /\ ~live
  /\ LET r == NewSecureLRUCache(capacity)
         r0 == NewSecureLRUCache000(capacity)
     IN /\ c' = r.c
        /\ live' = ~r.err
        /\ op' = Call("New", capacity, 0, 0, ~r.err, <<>>)
        /\ twin' = [c |-> r0.c,
                    ret |-> Call("New", capacity, 0, 0, ~r0.err, <<>>)]
  /\ UNCHANGED <<pre, impl, panicked, ref, mu, gor>>

EqPut(key, value) ==
  /\ Idle /\ live
  /\ LET r == Put(c, key, value)
     IN /\ c' = GC(r.c)
        /\ op' = Call("Put", key, value, 0, ~r.err, <<>>)
  /\ twin' = [c |-> GC(Put000(twin.c, key, value)),
              ret |-> Call("Put", key, value, 0, TRUE, <<>>)]
  /\ UNCHANGED <<live, pre, impl, panicked, ref, mu, gor>>

EqGet(key) ==
  /\ Idle /\ live
  /\ LET r == Get(c, key)
         r0 == Get000(twin.c, key)
     IN /\ c' = GC(r.c)
        /\ op' = Call("Get", key, 0, r.value, r.found, <<>>)
        /\ twin' = [c |-> GC(r0.c),
                    ret |-> Call("Get", key, 0, r0.value, r0.found, <<>>)]
  /\ UNCHANGED <<live, pre, impl, panicked, ref, mu, gor>>

EqGetOrDefault(key, defaultValue) ==
  /\ Idle /\ live
  /\ LET r == GetOrDefault(c, key, defaultValue)
         r0 == GetOrDefault000(twin.c, key, defaultValue)
     IN /\ c' = GC(r.c)
        /\ op' = Call("GetOrDefault", key, defaultValue, r.value, TRUE, <<>>)
        /\ twin' = [c |-> GC(r0.c),
                    ret |-> Call("GetOrDefault", key, defaultValue, r0.value,
                                 TRUE, <<>>)]
  /\ UNCHANGED <<live, pre, impl, panicked, ref, mu, gor>>

EqResize(newCapacity) ==
  /\ Idle /\ live
  /\ LET r == Resize(c, newCapacity)
         r0 == Resize000(twin.c, newCapacity)
     IN /\ c' = GC(r.c)
        /\ op' = Call("Resize", newCapacity, 0, 0, ~r.err, <<>>)
        /\ twin' = [c |-> GC(r0.c),
                    ret |-> Call("Resize", newCapacity, 0, 0, ~r0.err, <<>>)]
  /\ UNCHANGED <<live, pre, impl, panicked, ref, mu, gor>>

EqClear ==
  /\ Idle /\ live
  /\ c' = GC(Clear(c))
  /\ op' = Call("Clear", 0, 0, 0, TRUE, <<>>)
  /\ twin' = [c |-> GC(Clear000(twin.c)), ret |-> Call("Clear", 0, 0, 0, TRUE, <<>>)]
  /\ UNCHANGED <<live, pre, impl, panicked, ref, mu, gor>>

\* the caller goes on to its next pair of calls
EqContinue ==
  /\ op # NoCall
  /\ op' = NoCall
  /\ twin' = [twin EXCEPT !.ret = NoCall]
  /\ UNCHANGED <<c, live, pre, impl, panicked, ref, mu, gor>>

NextEquiv ==
  \/ \E capacity \in CapArgs : EqNew(capacity)
  \/ \E key \in KeySet, value \in ValSet : EqPut(key, value)
  \/ \E key \in KeySet : EqGet(key)
  \/ \E key \in KeySet, d \in ValSet : EqGetOrDefault(key, d)
  \/ \E newCapacity \in CapArgs : EqResize(newCapacity)
  \/ EqClear
  \/ EqContinue

SpecEquiv == InitEquiv /\ [][NextEquiv]_vars

----------------------------------------------------------------------------
(* Vocabulary of the properties *)

Min(a, b) == IF a < b THEN a ELSE b
Max(a, b) == IF a > b THEN a ELSE b

\* the sequence s without its elements equal to x
RECURSIVE Without(_, _)
Without(s, x) ==
  IF s = <<>> THEN <<>>
  ELSE IF Head(s) = x THEN Without(Tail(s), x)
  ELSE <<Head(s)>> \o Without(Tail(s), x)

NoDuplicates(s) == \A i, j \in 1..Len(s) : s[i] = s[j] => i = j

\* the value the index holds for a key that is present
ValueOf(k, key) == k.heap[k.cache[key]].value

\* key -> value for every key of the index
ItemsByIndex(k) == [x \in DOMAIN k.cache |-> ValueOf(k, x)]

Counters(k) == <<k.hits, k.misses, k.evictions>>

\* the keys of the last n entries of Keys(k), the last one first
TailFirst(k, n) == [i \in 1..n |-> Keys(k)[Len(Keys(k)) - i + 1]]

----------------------------------------------------------------------------
(* C1: once a call on a constructed cache has completed, Size() is at most *)
(* Capacity().                                                             *)
C1_CapacityBound == live => Size(c) <= Capacity(c)

\* a Put of a new key into a full cache has completed, and the cache is full
C1_Witness ==
  /\ live /\ op.name = "Put" /\ op.ok
  /\ op.key \notin DOMAIN pre.cache
  /\ Size(pre) = Capacity(pre)
  /\ Size(c) = Capacity(c)
  /\ Capacity(c) >= 2

(* C2: the keys of the index are exactly the keys met on the walk from the *)
(* head sentinel to the tail sentinel, none of them met twice, and Dump()  *)
(* has Size equal to the length of Order and to the number of Items.       *)
C2_IndexListConsistent ==
  live =>
    /\ DOMAIN c.cache = SeqRange(Keys(c))
    /\ NoDuplicates(Keys(c))
    /\ Dump(c).Size = Len(Dump(c).Order)
    /\ Dump(c).Size = Cardinality(DOMAIN Dump(c).Items)

\* after a Put that evicted, with two or more entries left
C2_Witness ==
  live /\ op.name = "Put" /\ op.evicted # <<>> /\ Len(Keys(c)) >= 2

(* C3: Put of a key that is not in the cache: below capacity, Keys() is    *)
(* the key followed by the previous Keys() and nothing is evicted; at      *)
(* capacity, exactly the last key of the previous Keys() is evicted and    *)
(* Keys() is the key followed by the previous Keys() without its last      *)
(* element.                                                                *)
C3_PutNewKey ==
  (op.name = "Put" /\ op.key \notin DOMAIN pre.cache) =>
    /\ Size(pre) < Capacity(pre) =>
         /\ op.evicted = <<>>
         /\ Keys(c) = <<op.key>> \o Keys(pre)
         /\ DOMAIN c.cache = DOMAIN pre.cache \cup {op.key}
    /\ Size(pre) = Capacity(pre) =>
         /\ op.evicted = <<Keys(pre)[Len(Keys(pre))]>>
         /\ Keys(c) = <<op.key>> \o SubSeq(Keys(pre), 1, Len(Keys(pre)) - 1)
         /\ DOMAIN c.cache =
              (DOMAIN pre.cache \ {Keys(pre)[Len(Keys(pre))]}) \cup {op.key}

\* a new key put into a full cache of three entries
C3_Witness ==
  /\ op.name = "Put" /\ op.key \notin DOMAIN pre.cache
  /\ Size(pre) = Capacity(pre) /\ Size(pre) = 3
  /\ Len(op.evicted) = 1

(* C4: Get of a present key returns its stored value and true, makes it    *)
(* the first key of Keys() and keeps the other keys in their order, the    *)
(* key set, the values and the capacity; Get of an absent key returns      *)
(* (0, false) and changes none of the index, the order, the values and     *)
(* the capacity.                                                           *)
C4_Get ==
  op.name = "Get" =>
    /\ op.key \in DOMAIN pre.cache =>
         /\ op.ok /\ op.rv = ValueOf(pre, op.key)
         /\ Keys(c) = <<op.key>> \o Without(Keys(pre), op.key)
         /\ DOMAIN c.cache = DOMAIN pre.cache
         /\ ItemsByIndex(c) = ItemsByIndex(pre)
         /\ Dump(c).Items = Dump(pre).Items
         /\ Capacity(c) = Capacity(pre)
    /\ op.key \notin DOMAIN pre.cache =>
         /\ ~op.ok /\ op.rv = 0
         /\ c.cache = pre.cache
         /\ Keys(c) = Keys(pre)
         /\ Values(c) = Values(pre)
         /\ Capacity(c) = Capacity(pre)

\* a Get that found the last of three keys, its value not 0
C4_Witness ==
  /\ op.name = "Get" /\ op.ok /\ op.rv # 0
  /\ Len(Keys(pre)) = 3 /\ Keys(pre)[3] = op.key
  /\ Keys(c)[1] = op.key

(* C5: Put of a key that is in the cache returns no error, evicts nothing  *)
(* (key set and size unchanged, also at capacity), makes the key the first *)
(* of Keys() with the others in their order, and a following Peek or Get   *)
(* of the key returns the value put.                                       *)
C5_PutExistingKey ==
  (op.name = "Put" /\ op.key \in DOMAIN pre.cache) =>
    /\ op.ok
    /\ op.evicted = <<>>
    /\ DOMAIN c.cache = DOMAIN pre.cache
    /\ Size(c) = Size(pre)
    /\ Keys(c) = <<op.key>> \o Without(Keys(pre), op.key)
    /\ Peek(c, op.key).found /\ Peek(c, op.key).value = op.value
    /\ Get(c, op.key).found /\ Get(c, op.key).value = op.value

\* an update of the last key of a full cache, with another value
C5_Witness ==
  /\ op.name = "Put" /\ op.key \in DOMAIN pre.cache
  /\ Size(pre) = Capacity(pre) /\ Size(pre) >= 2
  /\ Keys(pre)[Len(Keys(pre))] = op.key
  /\ ValueOf(pre, op.key) # op.value

(* C6: Peek(k) and Contains(k), for k present or absent, leave Keys(),     *)
(* Values(), Size(), Capacity() and the hit, miss and eviction counters    *)
(* as they were.                                                           *)
C6_PeekContainsFrame ==
  op.name \in {"Peek", "Contains"} =>
    /\ Keys(c) = Keys(pre)
    /\ Values(c) = Values(pre)
    /\ Size(c) = Size(pre)
    /\ Capacity(c) = Capacity(pre)
    /\ Counters(c) = Counters(pre)

\* a Peek that found a key that is not the first of Keys()
C6_Witness ==
  /\ op.name = "Peek" /\ op.ok
  /\ Len(Keys(pre)) >= 2 /\ Keys(pre)[1] # op.key

(* C7: Resize(newCapacity) with newCapacity >= 1 sets Capacity() to it and *)
(* leaves as Keys() the first min(old size, newCapacity) keys of the       *)
(* previous Keys(); with newCapacity >= size nothing is evicted, and a     *)
(* following Put of a new key below the new capacity evicts nothing.       *)
C7_ResizeValid ==
  (op.name = "Resize" /\ op.key >= 1) =>
    /\ op.ok
    /\ Capacity(c) = op.key
    /\ Keys(c) = SubSeq(Keys(pre), 1, Min(Size(pre), op.key))
    /\ op.key >= Size(pre) =>
         /\ op.evicted = <<>>
         /\ \A key \in KeySet \ DOMAIN c.cache, value \in ValSet :
              Size(c) < op.key =>
                /\ ~Put(c, key, value).err
                /\ Put(c, key, value).evicted = <<>>

\* a Resize that had to evict; and one that grew the bound of a full cache
C7_Witness ==
  /\ op.name = "Resize" /\ op.key >= 1
  /\ \/ Size(pre) > op.key
     \/ Size(pre) = Capacity(pre) /\ op.key > Capacity(pre)

(* C8, as the specification states it: shrinking the capacity from n to m  *)
(* (m < n) removes exactly n - m entries, in tail-to-head order.           *)
C8_ShrinkRemovesNMinusM ==
  (op.name = "Resize" /\ op.ok /\ op.key < Capacity(pre)) =>
    /\ Len(op.evicted) = Capacity(pre) - op.key
    /\ Size(c) = Size(pre) - (Capacity(pre) - op.key)
    /\ op.evicted = TailFirst(pre, Len(op.evicted))

(* C8, amended: shrinking the capacity from n to m (m < n) of a cache that *)
(* holds s entries removes exactly max(0, s - m) entries, which is n - m   *)
(* when the cache is full, and removes them in tail-to-head order.         *)
C8_ShrinkRemovesExcess ==
  (op.name = "Resize" /\ op.ok /\ op.key < Capacity(pre)) =>
    /\ Len(op.evicted) = Max(0, Size(pre) - op.key)
    /\ Size(c) = Size(pre) - Len(op.evicted)
    /\ op.evicted = TailFirst(pre, Len(op.evicted))
    /\ DOMAIN c.cache = DOMAIN pre.cache \ SeqRange(op.evicted)
    /\ Size(pre) = Capacity(pre) => Len(op.evicted) = Capacity(pre) - op.key

\* a shrink that evicted two entries
C8_Witness ==
  /\ op.name = "Resize" /\ op.ok /\ op.key < Capacity(pre)
  /\ Len(op.evicted) = 2

(* C9: Resize(newCapacity) with newCapacity < 1 returns an error and       *)
(* leaves the capacity, the index, the order, the values and the counters  *)
(* as they were; so Capacity() >= 1 in every state of a constructed cache. *)
C9_ResizeInvalid ==
  /\ (op.name = "Resize" /\ op.key < 1) => (~op.ok /\ c = pre)
  /\ live => Capacity(c) >= 1

\* a refused Resize of a cache that holds entries
C9_Witness ==
  op.name = "Resize" /\ op.key < 1 /\ ~op.ok /\ Size(c) >= 2

(* C10: in each of main.go, part_000 and part_001, NewSecureLRUCache with   *)
(* a capacity below 1 hands the caller an error and no cache, and does not *)
(* panic; with a capacity of 1 or more it yields an empty cache of that    *)
(* capacity.                                                               *)
C10_FallibleConstruction ==
  op.name = "New" =>
    /\ op.key < 1 => (~panicked /\ ~op.ok /\ ~live /\ c = NoCache)
    /\ op.key >= 1 =>
         /\ ~panicked /\ op.ok /\ live
         /\ MapLen(c.cache) = 0
         /\ impl # "main.go" => c.size = 0
         /\ c.capacity = op.key

(* C11: Remove(k) returns true exactly when k was in the cache; then k is   *)
(* gone from the index and from Keys(), every other key keeps its value    *)
(* and its place in the order, and a second Remove(k) returns false; when  *)
(* it returns false nothing changes.  The capacity and the counters are    *)
(* unchanged in both cases.                                                *)
C11_Remove ==
  op.name = "Remove" =>
    /\ op.ok <=> op.key \in DOMAIN pre.cache
    /\ op.ok =>
         /\ op.key \notin DOMAIN c.cache
         /\ op.key \notin SeqRange(Keys(c))
         /\ Keys(c) = Without(Keys(pre), op.key)
         /\ ItemsByIndex(c) =
              [x \in DOMAIN pre.cache \ {op.key} |-> ValueOf(pre, x)]
         /\ ~Remove(c, op.key).ok
    /\ ~op.ok => c = pre
    /\ Capacity(c) = Capacity(pre)
    /\ Counters(c) = Counters(pre)

\* the middle one of three keys removed
C11_Witness ==
  /\ op.name = "Remove" /\ op.ok
  /\ Len(Keys(pre)) = 3 /\ Keys(pre)[2] = op.key

\* the cache NewSecureLRUCache(capacity) returns, with the counters of k
Fresh(k) ==
  [NewSecureLRUCache(k.capacity).c EXCEPT
     !.hits = k.hits, !.misses = k.misses, !.evictions = k.evictions]

(* C12: after Clear() the cache is empty (Size() 0, Keys() empty, no key    *)
(* contained) with its capacity and counters unchanged; a second Clear()   *)
(* changes nothing; and every Put on the cleared cache does what it does   *)
(* on a freshly constructed cache of that capacity.                        *)
C12_Clear ==
  op.name = "Clear" =>
    /\ Size(c) = 0
    /\ Keys(c) = <<>>
    /\ \A key \in KeySet : ~Contains(c, key)
    /\ Capacity(c) = Capacity(pre)
    /\ Counters(c) = Counters(pre)
    /\ GC(Clear(c)) = c
    /\ \A key \in KeySet, value \in ValSet :
         /\ Put(c, key, value).err = Put(Fresh(c), key, value).err
         /\ GC(Put(c, key, value).c) = GC(Put(Fresh(c), key, value).c)
         /\ Keys(Put(c, key, value).c) = <<key>>

\* a full cache of three entries cleared
C12_Witness ==
  op.name = "Clear" /\ Size(pre) = 3 /\ Capacity(pre) = 3

(* C15: every Get or GetOrDefault of an absent key adds one to              *)
(* Stats().Misses, every one of a present key adds one to Stats().Hits,    *)
(* every entry Put or Resize evicts adds one to Stats().Evictions, and no  *)
(* other call changes the three counters (which start at 0).               *)
C15_CountersCount ==
  /\ op.name = "New" /\ op.ok =>
       Stats(c).Hits = 0 /\ Stats(c).Misses = 0 /\ Stats(c).Evictions = 0
  /\ op.name \in {"Get", "GetOrDefault"} =>
       IF op.key \in DOMAIN pre.cache
       THEN /\ Stats(c).Hits = Stats(pre).Hits + 1
            /\ Stats(c).Misses = Stats(pre).Misses
            /\ Stats(c).Evictions = Stats(pre).Evictions
       ELSE /\ Stats(c).Misses = Stats(pre).Misses + 1
            /\ Stats(c).Hits = Stats(pre).Hits
            /\ Stats(c).Evictions = Stats(pre).Evictions
  /\ op.name \in {"Put", "Resize"} =>
       /\ Stats(c).Evictions = Stats(pre).Evictions + Len(op.evicted)
       /\ Stats(c).Hits = Stats(pre).Hits
       /\ Stats(c).Misses = Stats(pre).Misses
  /\ op.name \in {"Peek", "Contains", "Remove", "Clear"} =>
       Counters(c) = Counters(pre)

(* C16: on a constructed cache every Put(k, v) returns no error, and after *)
(* it k is in the cache with value v.                                      *)
C16_PutNeverFull ==
  op.name = "Put" =>
    /\ op.ok
    /\ op.key \in DOMAIN c.cache
    /\ ValueOf(c, op.key) = op.value
    /\ Peek(c, op.key).found /\ Peek(c, op.key).value = op.value

\* a new key put into a full cache of capacity 1
C16_Witness ==
  /\ op.name = "Put" /\ op.key \notin DOMAIN pre.cache
  /\ Capacity(pre) = 1 /\ Size(pre) = 1

\* the node reached from node n by following next i times
RECURSIVE NextTimes(_, _, _)
NextTimes(k, n, i) ==
  IF i = 0 \/ n = Nil THEN n ELSE NextTimes(k, k.heap[n].next, i - 1)

(* C19: following next from the head sentinel reaches the tail sentinel    *)
(* after exactly Size() data nodes, prev is the inverse of next along the  *)
(* list, no node points to itself, and the sentinels stay the two ends of  *)
(* the list and out of the index, also when -1 is used as a key.           *)
C19_ListWellFormed ==
  live =>
    /\ Len(Walk(c)) = Size(c)
    /\ NextTimes(c, c.head, Size(c) + 1) = c.tail
    /\ \A i \in 0..Size(c) : NextTimes(c, c.head, i) \notin {Nil, c.tail}
    /\ \A n \in DOMAIN c.heap :
         /\ c.heap[n].next # n /\ c.heap[n].prev # n
         /\ n # c.tail => /\ c.heap[n].next # Nil
                          /\ c.heap[c.heap[n].next].prev = n
         /\ n # c.head => /\ c.heap[n].prev # Nil
                          /\ c.heap[c.heap[n].prev].next = n
    /\ c.head # c.tail
    /\ c.heap[c.head].prev = Nil /\ c.heap[c.tail].next = Nil
    /\ \A key \in DOMAIN c.cache :
         /\ c.cache[key] \notin {c.head, c.tail}
         /\ c.heap[c.cache[key]].key = key
    /\ DOMAIN c.heap = {c.head, c.tail} \cup SeqRange(Walk(c))

\* the key -1 found by Get among three entries and moved to the front
C19_Witness ==
  /\ live /\ op.name = "Get" /\ op.key = -1 /\ op.ok
  /\ Size(c) = 3 /\ Keys(pre)[3] = -1 /\ Keys(c)[1] = -1

(* C17: Keys() lists the live keys by the time of their last touch, the    *)
(* latest first, where a touch is a Put of the key or a Get or             *)
(* GetOrDefault that found it and nothing else is; so every key a Put or   *)
(* a Resize evicts is the live key touched longest ago.                    *)
C17_RecencyOrder ==
  live =>
    /\ Keys(c) = ref.now
    /\ \A i \in 1..Len(op.evicted) :
         op.evicted[i] = ref.before[Len(ref.before) - i + 1]

\* a GetOrDefault that found the last of three keys, and then a Put of a
\* new key that evicted the key touched longest ago
C17_Witness ==
  /\ live /\ op.name = "Put" /\ Len(op.evicted) = 1
  /\ Len(ref.before) = 3
  /\ op.evicted[1] = ref.before[3]
  /\ ref.now = <<op.key, ref.before[1], ref.before[2]>>

(* C20: given the same calls (Put, Get, GetOrDefault, Resize, Clear) on     *)
(* caches built with the same capacity, main.go and part_000 return the    *)
(* same results from every call and have the same Dump after it.           *)
C20_SameAsPart000 ==
  /\ op.name = twin.ret.name
  /\ op.rv = twin.ret.rv
  /\ op.ok = twin.ret.ok
  /\ live =>
       /\ Dump(c) = Dump000(twin.c)
       /\ Size(c) = Size000(twin.c)
       /\ Capacity(c) = Capacity000(twin.c)
       /\ \A key \in KeySet : Contains(c, key) = Contains000(twin.c, key)

\* both caches hold three entries after a Get that found the last key
C20_Witness ==
  /\ live /\ op.name = "Get" /\ op.ok /\ twin.ret.ok
  /\ Dump000(twin.c).Size = 3
  /\ Dump(c).Order[1] = op.key

(* C13: in part_001 shared by goroutines that call Get and Put, once every  *)
(* call has completed the keys of the index are the keys reachable from    *)
(* head, no key is reachable twice, the size field is the number of        *)
(* indexed keys and it is at most the capacity.                            *)
C13_NoTornState ==
  (impl = "part_001" /\ live /\ \A g \in Goroutines : gor[g].pc = "idle") =>
    /\ DOMAIN c.cache = SeqRange(Dump001(c).order)
    /\ NoDuplicates(Dump001(c).order)
    /\ c.size = MapLen(c.cache)
    /\ c.size <= c.capacity

(* C18: in main.go and part_000 a goroutine reads or writes the capacity,   *)
(* the index and the links only while it holds the mutex: as a reader in   *)
(* Contains, Size, Capacity and Peek, as the writer in Get, GetOrDefault,  *)
(* Put, Remove, Resize and Clear; and no goroutine is reading the capacity *)
(* in Capacity() while another is in the body of Resize.                   *)
C18_LockingDiscipline ==
  /\ \A g \in Goroutines :
       gor[g].pc = "in" =>
         /\ gor[g].call \in {"Contains", "Size", "Capacity", "Peek"} =>
              g \in mu.readers /\ mu.writer = 0
         /\ gor[g].call \in {"Get", "GetOrDefault", "Put", "Remove",
                             "Resize", "Clear"} =>
              mu.writer = g /\ mu.readers = {}
  /\ \A g, h \in Goroutines :
       ~(/\ gor[g].pc = "in" /\ gor[g].call = "Capacity"
         /\ gor[h].pc = "in" /\ gor[h].call = "Resize")

\* the pairs of cache k from head to tail
PairsOf(k) ==
  [n \in 1..Len(Keys(k)) |-> [key |-> Keys(k)[n], value |-> Values(k)[n]]]

(* C14: Range of main.go does not hold the mutex while the visitor runs,   *)
(* so a Put, Remove, Clear or Resize the visitor makes can take it; the    *)
(* visitor is called with the pairs the cache held when Range was called,  *)
(* from head to tail, each once, whatever the visitor did to the cache     *)
(* meanwhile, and is not called again once it has returned false.          *)
C14_RangeSnapshot ==
  op.name = "Range" =>
    /\ gor[Caller].pc \in {"f", "g"} => mu = NoLock
    /\ gor[Caller].seen =
         SubSeq(PairsOf(pre), 1, Len(gor[Caller].seen))
    /\ Len(gor[Caller].seen) <= Len(PairsOf(pre))
    /\ ~op.ok => gor[Caller].pc = "returned" /\ Len(gor[Caller].seen) = op.rv
    /\ (gor[Caller].pc = "returned" /\ op.ok) => gor[Caller].seen = PairsOf(pre)

\* Range has returned after two visits, the visitor having removed the
\* key of the second pair before it was visited
C14_Witness ==
  /\ op.name = "Range" /\ op.ok /\ gor[Caller].pc = "returned"
  /\ Len(gor[Caller].seen) >= 2
  /\ gor[Caller].seen[2].key \notin DOMAIN c.cache
  /\ gor[Caller].seen[1].key \in DOMAIN c.cache

====
